---- MODULE Spec2Model ----
(***************************************************************************)
(* File-search orchestration of codex-rs/tui/src/file_search.rs:           *)
(* FileSearchManager (debounce and cancellation), the debounce thread, the *)
(* engine worker thread of spawn_file_search and its ActiveSearchGuard.    *)
(*                                                                         *)
(* A cancellation token (Arc<AtomicBool>) is identified by its index in    *)
(* `tokens`; the engine worker that owns token t is workers[t].  The       *)
(* debounce thread installs active_search and calls spawn_file_search back *)
(* to back, with no access to shared state in between, so both are one     *)
(* step: a spawned thread that has not run yet is a worker at pc "init".   *)
(* Durations are not modelled: a sleep ends, and a deadline is reached, at *)
(* any step.                                                               *)
(***************************************************************************)
EXTENDS Integers, Sequences, FiniteSets, TLC

\* Number of on_user_query calls explored.
MaxCalls == 3

MAX_FILE_SEARCH_RESULTS == 8

\* Queries the user types ("a", "ab") and the file under search_dir ("ba");
\* strings are sequences of characters.  "a" matches the file, "ab" does not.
Queries == { <<"a">>, <<"a", "b">> }
Files == { <<"b", "a">> }

VARIABLES
    latest_query,        \* SearchState.latest_query
    is_search_scheduled, \* SearchState.is_search_scheduled
    active_search,       \* SearchState.active_search (None or query+token)
    tokens,              \* tokens[t]: value of the t-th cancellation token
    debounce,            \* number of debounce threads at each position
    workers,             \* workers[t]: the engine worker thread owning token t
    calls,               \* history: number of on_user_query calls made
    last_call,           \* history: argument of the last on_user_query call
    asked                \* history: the queries that changed latest_query

vars == <<latest_query, is_search_scheduled, active_search, tokens, debounce,
          workers, calls, last_call, asked>>

None == [query |-> <<>>, token |-> 0]

-----------------------------------------------------------------------------
(* Strings *)

\* str::starts_with
StartsWith(s, p) == Len(p) <= Len(s) /\ SubSeq(s, 1, Len(p)) = p

\* Fuzzy match: the query's characters occur in the path, in order.
RECURSIVE IsSubsequence(_, _)
IsSubsequence(q, f) ==
    IF q = <<>> THEN TRUE
    ELSE IF f = <<>> THEN FALSE
    ELSE IF Head(q) = Head(f) THEN IsSubsequence(Tail(q), Tail(f))
    ELSE IsSubsequence(q, Tail(f))

-----------------------------------------------------------------------------
(* The engine: file_search::SearchManager *)

\* Best match first: the shorter path ranks higher (no two files tie).
Best(S) == CHOOSE f \in S : \A g \in S : Len(f) <= Len(g)

RECURSIVE Ranked(_)
Ranked(S) == IF S = {} THEN <<>> ELSE <<Best(S)>> \o Ranked(S \ {Best(S)})

Truncate(s, n) == IF Len(s) <= n THEN s ELSE SubSeq(s, 1, n)

\* SearchManager::new with the walker enabled: nothing discovered yet.
NewManager == [todo |-> Files, inj |-> {}, matched |-> {}, cancelled |-> FALSE]

\* No SearchManager (not constructed yet, construction failed, or dropped).
NoManager == [todo |-> {}, inj |-> {}, matched |-> {}, cancelled |-> FALSE]

\* SearchManager::cancel: walker and matcher stop.
ManagerCancel(m) == [todo |-> {}, inj |-> {}, matched |-> m.matched, cancelled |-> TRUE]

\* SearchManager::tick: the matcher has processed the injected items `done`.
ManagerTick(m, query, done) ==
    [m EXCEPT !.inj = m.inj \ done,
              !.matched = m.matched \cup {f \in done : IsSubsequence(query, f)}]

\* TickStatus.running after a tick that left manager m.
TickRunning(m) == ~m.cancelled /\ (m.todo # {} \/ m.inj # {})

\* SearchManager::current_results: the paths of the ranked matches.
CurrentResults(m) == Truncate(Ranked(m.matched), MAX_FILE_SEARCH_RESULTS)

\* The snapshot of a search that ran to the end over search_dir.
FinalResults(query) ==
    Truncate(Ranked({f \in Files : IsSubsequence(query, f)}), MAX_FILE_SEARCH_RESULTS)

-----------------------------------------------------------------------------
(* FileSearchManager *)

TypeOK ==
    /\ latest_query \in Queries \cup {<<>>}
    /\ is_search_scheduled \in BOOLEAN
    /\ active_search.token \in 0..Len(tokens)
    /\ Len(tokens) = Len(workers)
    /\ calls \in 0..MaxCalls

\* FileSearchManager::new
Init ==
    /\ latest_query = <<>>
    /\ is_search_scheduled = FALSE
    /\ active_search = None
    /\ tokens = <<>>
    /\ debounce = [wait |-> 0, go |-> 0]
    /\ workers = <<>>
    /\ calls = 0
    /\ last_call = <<>>
    /\ asked = {}

NoChangeNever(query, latest) == FALSE

\* `query == st.latest_query`: nothing to do.
NoChange(query, latest) == query = latest

ObsoleteAlways(query, active) == active # None

ObsoleteNever(query, active) == FALSE

ObsoleteReversed(query, active) ==
    active # None /\ ~StartsWith(active.query, query)

\* The in-flight search is definitely obsolete.
Obsolete(query, active) ==
    active # None /\ ~StartsWith(query, active.query)

ArmsAlways(scheduled) == TRUE

\* This call is the one that spawns the debounce thread.
ArmsDebounce(scheduled) == ~scheduled

\* on_user_query(query)
OnUserQuery(query) ==
    /\ calls < MaxCalls
    /\ calls' = calls + 1
    /\ last_call' = query
    /\ IF NoChange(query, latest_query)
       THEN UNCHANGED <<latest_query, is_search_scheduled, active_search,
                        tokens, debounce, workers, asked>>
       ELSE /\ latest_query' = query
            /\ asked' = asked \cup {query}
            /\ IF Obsolete(query, active_search)
               THEN /\ tokens' = [tokens EXCEPT ![active_search.token] = TRUE]
                    /\ active_search' = None
               ELSE UNCHANGED <<tokens, active_search>>
            /\ is_search_scheduled' = TRUE
            /\ debounce' = IF ArmsDebounce(is_search_scheduled)
                           THEN [debounce EXCEPT !.wait = @ + 1]
                           ELSE debounce
            /\ UNCHANGED workers

-----------------------------------------------------------------------------
(* The debounce thread *)

PollAlwaysPasses(active) == TRUE

\* The thread's poll: active_search.is_none() under the lock.
PollPasses(active) == active = None

\* sleep(FILE_SEARCH_DEBOUNCE), then poll until active_search is cleared.
DebouncePoll ==
    /\ debounce.wait > 0
    /\ PollPasses(active_search)
    /\ debounce' = [wait |-> debounce.wait - 1, go |-> debounce.go + 1]
    /\ UNCHANGED <<latest_query, is_search_scheduled, active_search, tokens,
                   workers, calls, last_call, asked>>

\* The query the debounce thread searches for.
SearchQuery(latest) == latest

\* A thread just started by spawn_file_search.
NewWorker(query) ==
    [pc |-> "init", query |-> query, manager |-> NoManager,
     notify_flag |-> FALSE, sent_once |-> FALSE, last_sent_paths |-> <<>>,
     running |-> FALSE, flag_was_set |-> FALSE, timeout_elapsed |-> FALSE,
     events |-> <<>>, saw_cancel |-> FALSE, late |-> FALSE]

\* The timer has expired: install active_search, spawn_file_search.
DebounceStart ==
    /\ debounce.go > 0
    /\ debounce' = [debounce EXCEPT !.go = @ - 1]
    /\ tokens' = Append(tokens, FALSE)
    /\ is_search_scheduled' = FALSE
    /\ active_search' = [query |-> SearchQuery(latest_query), token |-> Len(tokens) + 1]
    /\ workers' = Append(workers, NewWorker(SearchQuery(latest_query)))
    /\ UNCHANGED <<latest_query, calls, last_call, asked>>

-----------------------------------------------------------------------------
(* The engine worker thread of spawn_file_search *)

\* Replace worker w by the record r.
SetWorker(w, r) == workers' = [workers EXCEPT ![w] = r]

\* Fields of a loop iteration that are dead once the iteration is over.
EndIteration(self) ==
    [self EXCEPT !.running = FALSE, !.flag_was_set = FALSE, !.timeout_elapsed = FALSE]

\* The thread has returned from its closure: its locals are gone.
Exited(self) == [NewWorker(self.query) EXCEPT !.pc = "done"]

\* tx.send(AppEvent::FileSearchResult { query, matches })
Publish(self, matches) ==
    [self EXCEPT !.events = Append(@, matches), !.late = @ \/ self.saw_cancel]

InitFailureSilent(self) == [self EXCEPT !.pc = "failed"]

\* SearchManager::new fails: one empty result, then return.
InitFailure(self) == [Publish(self, <<>>) EXCEPT !.pc = "failed"]

\* SearchManager::new: Ok(manager) enters the loop, Err(_) returns.
EngineInit(w) ==
    /\ w \in DOMAIN workers
    /\ workers[w].pc = "init"
    /\ \E ok \in BOOLEAN :
         SetWorker(w, IF ok
                      THEN [workers[w] EXCEPT !.pc = "top", !.manager = NewManager]
                      ELSE InitFailure(workers[w]))
    /\ UNCHANGED <<latest_query, is_search_scheduled, active_search, tokens,
                   debounce, calls, last_call, asked>>

\* The walker thread of worker w discovers file f and injects it; the
\* notifier sets notify_flag.
WalkerInject(w, f) ==
    /\ w \in DOMAIN workers
    /\ workers[w].pc \in {"top", "tick", "post"}
    /\ ~workers[w].manager.cancelled
    /\ f \in workers[w].manager.todo
    /\ SetWorker(w, [workers[w] EXCEPT !.manager.todo = @ \ {f},
                                       !.manager.inj = @ \cup {f},
                                       !.notify_flag = TRUE])
    /\ UNCHANGED <<latest_query, is_search_scheduled, active_search, tokens,
                   debounce, calls, last_call, asked>>

\* Top of the loop: if the token is set, manager.cancel().
LoopTop(w) ==
    /\ w \in DOMAIN workers
    /\ workers[w].pc = "top"
    /\ SetWorker(w, [workers[w] EXCEPT
                       !.pc = "tick",
                       !.manager = IF tokens[w] THEN ManagerCancel(@) ELSE @,
                       !.saw_cancel = @ \/ tokens[w]])
    /\ UNCHANGED <<latest_query, is_search_scheduled, active_search, tokens,
                   debounce, calls, last_call, asked>>

ShouldEmitAlways(cancelled, paths_changed, sent_once, flag_was_set, changed, running, timeout_elapsed) ==
    ~cancelled

ShouldEmitOnce(cancelled, paths_changed, sent_once, flag_was_set, changed, running, timeout_elapsed) ==
    /\ ~cancelled
    /\ ~sent_once
    /\ (flag_was_set \/ changed \/ ~running \/ timeout_elapsed)

ShouldEmitEveryNotice(cancelled, paths_changed, sent_once, flag_was_set, changed, running, timeout_elapsed) ==
    /\ ~cancelled
    /\ (paths_changed \/ flag_was_set \/ changed \/ ~running \/ timeout_elapsed)

\* should_emit
ShouldEmit(cancelled, paths_changed, sent_once, flag_was_set, changed, running, timeout_elapsed) ==
    /\ ~cancelled
    /\ \/ paths_changed
       \/ /\ ~sent_once
          /\ (flag_was_set \/ changed \/ ~running \/ timeout_elapsed)

\* manager.tick, notify_flag.swap(false), current_results, should_emit and
\* the send it decides.  timeout_elapsed is read again only if nothing has
\* been sent, and is kept only then.
LoopTick(w) ==
    /\ w \in DOMAIN workers
    /\ workers[w].pc = "tick"
    /\ \E done \in SUBSET workers[w].manager.inj, timeout \in BOOLEAN :
         LET self == workers[w]
             m == ManagerTick(self.manager, self.query, done)
             paths == CurrentResults(m)
             cancelled == tokens[w]
             emit == ShouldEmit(cancelled, paths # self.last_sent_paths,
                                self.sent_once, self.notify_flag, done # {},
                                TickRunning(m), timeout)
             seen == [self EXCEPT !.saw_cancel = @ \/ cancelled]
             sent == IF emit
                     THEN [Publish(seen, paths) EXCEPT !.sent_once = TRUE,
                                                       !.last_sent_paths = paths]
                     ELSE seen
         IN SetWorker(w, [sent EXCEPT !.pc = "post", !.manager = m,
                                      !.notify_flag = FALSE,
                                      !.running = TickRunning(m),
                                      !.flag_was_set = self.notify_flag,
                                      !.timeout_elapsed = timeout /\ ~sent.sent_once])
    /\ UNCHANGED <<latest_query, is_search_scheduled, active_search, tokens,
                   debounce, calls, last_call, asked>>

DeadlineSilent(self) == self

\* The send of the first-result deadline, made when nothing was sent yet.
DeadlineSend(self) == Publish(self, CurrentResults(self.manager))

\* End of the iteration: the two ways out of the loop.
LoopPost(w) ==
    /\ w \in DOMAIN workers
    /\ workers[w].pc = "post"
    /\ LET self == [workers[w] EXCEPT !.saw_cancel = @ \/ tokens[w]]
           leave(r) == [r EXCEPT !.pc = "drop"]
           again == [EndIteration(self) EXCEPT !.pc = "top"]
       IN IF tokens[w] /\ self.sent_once
          THEN SetWorker(w, leave(self))
          ELSE IF ~self.running /\ ~self.flag_was_set
               THEN IF self.sent_once
                    THEN \E progress_elapsed \in BOOLEAN :
                           SetWorker(w, IF progress_elapsed THEN leave(self) ELSE again)
                    ELSE IF self.timeout_elapsed
                         THEN SetWorker(w, leave(DeadlineSend(self)))
                         ELSE SetWorker(w, again)
               ELSE SetWorker(w, again)
    /\ UNCHANGED <<latest_query, is_search_scheduled, active_search, tokens,
                   debounce, calls, last_call, asked>>

GuardClearsNever(active, token) == FALSE

GuardClearsAny(active, token) == active # None

\* ActiveSearchGuard::drop clears active_search if it still holds this token.
GuardClears(active, token) == active # None /\ active.token = token

\* The thread returns: _guard is dropped.
GuardDrop(w) ==
    /\ w \in DOMAIN workers
    /\ workers[w].pc \in {"drop", "failed"}
    /\ active_search' = IF GuardClears(active_search, w) THEN None ELSE active_search
    /\ SetWorker(w, Exited(workers[w]))
    /\ UNCHANGED <<latest_query, is_search_scheduled, tokens, debounce, calls,
                   last_call, asked>>

\* The token ids that can exist: every search is started for some call.
Ids == 1..MaxCalls

Next ==
    \/ \E q \in Queries : OnUserQuery(q)
    \/ DebouncePoll
    \/ DebounceStart
    \/ \E w \in Ids : EngineInit(w)
    \/ \E w \in Ids, f \in Files : WalkerInject(w, f)
    \/ \E w \in Ids : LoopTop(w)
    \/ \E w \in Ids : LoopTick(w)
    \/ \E w \in Ids : LoopPost(w)
    \/ \E w \in Ids : GuardDrop(w)

Spec == Init /\ [][Next]_vars

\* The thread of engine worker w.
Worker(w) ==
    EngineInit(w) \/ LoopTop(w) \/ LoopTick(w) \/ LoopPost(w) \/ GuardDrop(w)

\* The debounce thread.
Debounce == DebouncePoll \/ DebounceStart

\* The walker thread of worker w.
Walker(w) == \E f \in Files : WalkerInject(w, f)

\* A tick of worker w in which the matcher has caught up with the injector
\* and the first-result deadline has passed.
TickSettles(w) ==
    /\ LoopTick(w)
    /\ workers'[w].manager.inj = {}
    /\ workers'[w].timeout_elapsed \/ workers'[w].sent_once

\* Worker w leaves the loop.
LoopExit(w) == LoopPost(w) /\ workers'[w].pc = "drop"

\* Every spawned thread keeps running, the walk and the matcher finish and
\* the 200 ms deadlines pass; the user may stop typing at any time.
Fairness ==
    /\ WF_vars(Debounce)
    /\ \A w \in Ids :
         /\ WF_vars(Worker(w))
         /\ WF_vars(Walker(w))
         /\ SF_vars(TickSettles(w))
         /\ SF_vars(LoopExit(w))

FairSpec == Spec /\ Fairness

-----------------------------------------------------------------------------
(* A SearchManager without walker, driven through its injector as in      *)
(* tests/search_manager.rs: the caller pushes items and ticks.            *)

\* The queries and the pushed paths ("g" with "alpha.txt" and
\* "subdir/gamma.rs" in the test); "g" matches two of the paths, "ga" one.
TestQueries == { <<"g">>, <<"g", "a">> }
TestItems == { <<"a">>, <<"g", "a">>, <<"a", "l", "g">>, <<"a", "l", "p", "h">> }

\* SearchManager::new(query, .., false, notify): nothing to walk.
ManagerWithoutWalker == NoManager

\* The caller of the manager: the items it has pushed so far and the
\* `running` of the TickStatus it got last (none yet: still running).
NewCaller(query) ==
    [pc |-> "test", query |-> query, manager |-> ManagerWithoutWalker,
     pushed |-> {}, running |-> TRUE]

ManagerInit ==
    /\ latest_query = <<>>
    /\ is_search_scheduled = FALSE
    /\ active_search = None
    /\ tokens = <<FALSE>>
    /\ debounce = [wait |-> 0, go |-> 0]
    /\ workers \in { <<NewCaller(q)>> : q \in TestQueries }
    /\ calls = 0
    /\ last_call = <<>>
    /\ asked = {}

PushLost(m, f) == m

\* push(&injector, path)
Push(m, f) == [m EXCEPT !.inj = @ \cup {f}]

\* The caller pushes item f.
TestPush(f) ==
    /\ f \notin workers[1].pushed
    /\ SetWorker(1, [workers[1] EXCEPT !.manager = Push(@, f),
                                       !.pushed = @ \cup {f}])
    /\ UNCHANGED <<latest_query, is_search_scheduled, active_search, tokens,
                   debounce, calls, last_call, asked>>

\* manager.tick(timeout), in which the matcher gets through `done`.
TestTick(done) ==
    /\ done \subseteq workers[1].manager.inj
    /\ LET m == ManagerTick(workers[1].manager, workers[1].query, done)
       IN SetWorker(1, [workers[1] EXCEPT !.manager = m,
                                          !.running = TickRunning(m)])
    /\ UNCHANGED <<latest_query, is_search_scheduled, active_search, tokens,
                   debounce, calls, last_call, asked>>

ManagerNext ==
    \/ \E f \in TestItems : TestPush(f)
    \/ \E done \in SUBSET TestItems : TestTick(done)

ManagerSpec == ManagerInit /\ [][ManagerNext]_vars

\* The matcher's threads run: pushed items do get matched.
MatcherProgress == \E done \in SUBSET TestItems : done # {} /\ TestTick(done)

ManagerFairSpec == ManagerSpec /\ WF_vars(MatcherProgress)

-----------------------------------------------------------------------------
(* Properties *)

\* Engine worker threads that have been spawned and have not exited.
Live(w) == workers[w].pc # "done"
LiveWorkers == {w \in DOMAIN workers : Live(w)}

\* Worker w is inside the tick loop.
InLoop(w) == workers[w].pc \in {"top", "tick", "post"}

\* Worker w has left its closure body (only the guard's drop remains).
Leaving(w) == workers[w].pc \in {"drop", "failed"}

\* Debounce threads that have not yet installed their search.
PendingDebounce == debounce.wait + debounce.go

\* This step is an on_user_query call; its argument is last_call'.
IsCall == calls' # calls

\* This step starts an engine worker.
IsStart == Len(workers') # Len(workers)

\* C1: at most one engine worker (spawned, not yet exited) exists at any
\* time; none is started while an earlier one, cancelled or not, still runs.
C1_AtMostOneEngineWorker == Cardinality(LiveWorkers) <= 1

\* C2: no worker publishes a FileSearchResult after its loop has observed
\* its cancel flag true.
C2_NoEventAfterCancelObserved == \A w \in DOMAIN workers : ~workers[w].late

\* C3: a worker that leaves its closure, by any path, has published at
\* least one event.
C3_ExitedWorkerPublished ==
    \A w \in DOMAIN workers : Leaving(w) => Len(workers[w].events) >= 1

\* A cancelled worker that never sent from should_emit leaves with one event.
C3_Witness ==
    \E w \in DOMAIN workers :
        /\ workers[w].pc = "drop"
        /\ tokens[w]
        /\ ~workers[w].sent_once
        /\ Len(workers[w].events) = 1

\* C4: a call that changes latest_query while the active search's query is
\* not a prefix of the new query leaves that search's token true and a
\* search scheduled.
C4_ObsoleteSearchCancelled ==
    [][(/\ IsCall
        /\ last_call' # latest_query
        /\ active_search # None
        /\ ~StartsWith(last_call', active_search.query))
       => (/\ tokens'[active_search.token]
           /\ (is_search_scheduled' \/ PendingDebounce' > 0))]_vars

\* The search for "ab" was cancelled by the call with "a"; it still runs.
C4_Witness ==
    \E w \in DOMAIN workers :
        /\ workers[w].query = <<"a", "b">>
        /\ latest_query = <<"a">>
        /\ tokens[w]
        /\ Live(w)
        /\ is_search_scheduled

\* C5: a call whose query starts with the active search's query leaves the
\* token false and active_search in place, and a new engine worker starts
\* only once no uncancelled worker is running.
C5_ExtendedSearchContinues ==
    [][/\ (IsCall /\ active_search # None
                  /\ StartsWith(last_call', active_search.query))
          => (/\ active_search' = active_search
              /\ tokens' = tokens
              /\ ~tokens'[active_search.token])
       /\ IsStart => \A w \in DOMAIN workers : Live(w) => tokens[w]]_vars

\* The search for "a" runs on after the call with "ab", whose debounce
\* thread waits for it.
C5_Witness ==
    /\ active_search # None
    /\ active_search.query = <<"a">>
    /\ latest_query = <<"a", "b">>
    /\ ~tokens[active_search.token]
    /\ InLoop(active_search.token)
    /\ debounce.wait = 1

\* C6: the calls made before the debounce thread's start step share one
\* debounce thread, which starts exactly one engine worker, for the query of
\* the last call.
C6_OneSearchForLastQuery ==
    [][/\ PendingDebounce <= 1
       /\ (IsCall /\ is_search_scheduled) => debounce' = debounce
       /\ IsStart => /\ Len(workers') = Len(workers) + 1
                     /\ workers'[Len(workers')].query = last_call
                     /\ PendingDebounce' = 0
                     /\ ~is_search_scheduled']_vars

\* "a" then "ab" were typed before the timer fired: one search, for "ab".
C6_Witness ==
    /\ calls = 2
    /\ asked = {<<"a">>, <<"a", "b">>}
    /\ latest_query = <<"a", "b">>
    /\ Len(workers) = 1
    /\ workers[1].query = <<"a", "b">>
    /\ PendingDebounce = 0

\* C7: a call with the current latest_query changes nothing and spawns
\* nothing.
C7_SameQueryIsNoOp ==
    [][(IsCall /\ last_call' = latest_query)
       => UNCHANGED <<latest_query, is_search_scheduled, active_search, tokens,
                      debounce, workers>>]_vars

\* Two calls, the second with the query of the first, while the debounce
\* thread of the first is waiting.
C7_Witness ==
    /\ calls = 2
    /\ asked = {<<"a">>}
    /\ is_search_scheduled
    /\ debounce.wait = 1
    /\ workers = <<>>

\* C8: a worker whose SearchManager cannot be constructed publishes one
\* empty result, never enters the loop, and after it has exited
\* active_search does not refer to it.
C8_InitFailure ==
    [][\A w \in DOMAIN workers :
         /\ (workers[w].pc = "init" /\ workers'[w].pc \notin {"init", "top"})
            => (workers'[w].pc = "failed" /\ workers'[w].events = << <<>> >>)
         /\ workers[w].pc = "failed"
            => (/\ workers'[w].pc \in {"failed", "done"}
                /\ workers'[w].pc = "failed" => workers'[w].events = << <<>> >>)
         /\ workers'[w].pc = "done" => active_search'.token # w]_vars

\* A worker has failed to construct its manager and has sent its one event.
C8_Witness ==
    \E w \in DOMAIN workers :
        /\ workers[w].pc = "failed"
        /\ workers[w].events = << <<>> >>
        /\ active_search.token = w

\* Nothing is scheduled and no thread is left.
Idle ==
    /\ ~is_search_scheduled
    /\ PendingDebounce = 0
    /\ LiveWorkers = {}

Last(s) == s[Len(s)]

\* C9: every query passed to on_user_query whose search no later query
\* cancels gets a FileSearchResult: once the orchestrator is idle and no
\* token was ever set, each query asked has had its engine worker.
C9_EveryAskedQueryIsSearched ==
    (Idle /\ \A t \in DOMAIN tokens : ~tokens[t])
    => \A q \in asked : \E w \in DOMAIN workers : workers[w].query = q

\* C9, amended: the query that is latest_query when the debounce thread
\* starts the search is the one searched; an uncancelled worker leaves the
\* loop with the engine's final snapshot, which is its current one, as its
\* last event; and every scheduled search starts and every worker exits.
C9_LatestQueryGetsFinalResult ==
    /\ [][IsStart => workers'[Len(workers')].query = latest_query]_vars
    /\ [](\A w \in DOMAIN workers :
            (workers[w].pc = "drop" /\ ~tokens[w])
            => /\ workers[w].events # <<>>
               /\ Last(workers[w].events) = CurrentResults(workers[w].manager)
               /\ Last(workers[w].events) = FinalResults(workers[w].query))
    /\ []<>Idle

\* The search for "a" has published the empty snapshot, then the match, and
\* leaves uncancelled.
C9_Witness ==
    \E w \in DOMAIN workers :
        /\ workers[w].pc = "drop"
        /\ workers[w].query = <<"a">>
        /\ ~tokens[w]
        /\ workers[w].events = << <<>>, << <<"b", "a">> >> >>

\* C10: a worker with a manager whose snapshot is empty at every tick
\* publishes one event, with no matches, and has published exactly one when
\* it leaves.
C10_NoMatches ==
    \A w \in DOMAIN workers :
        (workers[w].pc \in {"top", "tick", "post", "drop"}
            /\ workers[w].manager.matched = {})
        => /\ workers[w].events \in { <<>>, << <<>> >> }
           /\ workers[w].pc = "drop" => workers[w].events = << <<>> >>

\* The search for "ab" has seen the one file, which does not match, sent its
\* empty result and left the loop uncancelled.
C10_Witness ==
    \E w \in DOMAIN workers :
        /\ workers[w].pc = "drop"
        /\ workers[w].query = <<"a", "b">>
        /\ workers[w].manager.todo = {}
        /\ workers[w].manager.inj = {}
        /\ ~tokens[w]
        /\ workers[w].events = << <<>> >>

\* C11: a search that is active when on_user_query is called with a query
\* that is not a prefix of the search's own query has its token set before
\* the next engine worker starts.  A token is written only while its search
\* is active_search, and is_search_scheduled is true during a search only by
\* a call made during it, whose query is then latest_query: the search must
\* not stop being active_search with its token still false.
C11_NonPrefixCallCancels ==
    [][\A w \in DOMAIN workers :
         (/\ active_search.token = w
          /\ active_search'.token # w
          /\ is_search_scheduled
          /\ ~StartsWith(workers[w].query, latest_query))
         => tokens'[w]]_vars

\* C11, amended: the test is the other way round.  A call that changes
\* latest_query to a query that does not start with the active search's
\* query sets that search's token in the call itself, which starts no engine
\* worker; so whenever an engine worker starts, every running worker whose
\* query is not a prefix of latest_query has its token set.
C11_NonExtendingCallCancels ==
    [][/\ (/\ IsCall
           /\ last_call' # latest_query
           /\ active_search # None
           /\ ~StartsWith(last_call', active_search.query))
          => (tokens'[active_search.token] /\ ~IsStart)
       /\ IsStart => \A w \in DOMAIN workers :
                       (Live(w) /\ ~StartsWith(latest_query, workers[w].query))
                       => tokens[w]]_vars

\* The search for "ab" was cancelled by the call with "a", and the worker
\* for "a" has started after it.
C11_Witness ==
    /\ Len(workers) >= 2
    /\ workers[1].query = <<"a", "b">>
    /\ tokens[1]
    /\ workers[2].query = <<"a">>
    /\ calls = 2

\* The paths of a snapshot.
Paths(results) == {results[i] : i \in DOMAIN results}

C13_ExtendingCallChangesLatestOnly ==
    [][(/\ IsCall
        /\ last_call' # latest_query
        /\ active_search # None
        /\ StartsWith(last_call', active_search.query))
       => (/\ latest_query' = last_call'
           /\ UNCHANGED <<is_search_scheduled, active_search, tokens,
                          debounce, workers>>)]_vars

\* C13, amended: such a call leaves active_search, the tokens and the
\* engine workers as they are; it changes latest_query only if a search is
\* already scheduled, and otherwise it also sets is_search_scheduled and
\* spawns the debounce thread.
C13_ExtendingCallSchedulesOnce ==
    [][(/\ IsCall
        /\ last_call' # latest_query
        /\ active_search # None
        /\ StartsWith(last_call', active_search.query))
       => (/\ latest_query' = last_call'
           /\ UNCHANGED <<active_search, tokens, workers>>
           /\ is_search_scheduled'
           /\ debounce' = IF is_search_scheduled
                          THEN debounce
                          ELSE [debounce EXCEPT !.wait = @ + 1])]_vars

\* The search for "a" is active and the call with "ab", the first since it
\* started, has scheduled the next search.
C13_Witness ==
    /\ calls = 2
    /\ active_search = [query |-> <<"a">>, token |-> 1]
    /\ ~tokens[1]
    /\ latest_query = <<"a", "b">>
    /\ is_search_scheduled
    /\ PendingDebounce = 1

\* C14: at most one debounce thread is pending (armed and not yet past the
\* step that clears is_search_scheduled), one is pending exactly when
\* is_search_scheduled is true, and a call made while is_search_scheduled
\* is true spawns none.
C14_OneDebounceThread ==
    /\ [](PendingDebounce \in {0, 1})
    /\ [](is_search_scheduled <=> PendingDebounce = 1)
    /\ [][(IsCall /\ is_search_scheduled)
          => PendingDebounce' = PendingDebounce]_vars

\* Two calls have changed latest_query before the timer fired: one debounce
\* thread is pending.
C14_Witness ==
    /\ calls = 2
    /\ asked = { <<"a">>, <<"a", "b">> }
    /\ is_search_scheduled
    /\ PendingDebounce = 1
    /\ workers = <<>>

\* C15: the debounce thread writes active_search only over None: from its
\* poll that found active_search cleared to its write, under a second lock
\* acquisition, active_search stays None whatever runs in between.
C15_InstallsOverNoneOnly ==
    /\ [](debounce.go > 0 => active_search = None)
    /\ [][(active_search' # active_search /\ active_search' # None)
          => (IsStart /\ active_search = None)]_vars

\* The second debounce thread has installed its search while the cancelled
\* worker of the first, whose entry the cancelling call had cleared, runs.
C15_Witness ==
    /\ Len(workers) = 2
    /\ active_search.token = 2
    /\ tokens[1]
    /\ InLoop(1)
    /\ workers[2].pc = "init"

\* C16: the step in which an engine worker exits, by whichever path, sets
\* active_search to None if it holds that worker's token and leaves it as
\* it is otherwise; active_search never holds the token of an exited worker.
C16_GuardClearsOwnSearchOnly ==
    /\ [][\A w \in DOMAIN workers :
            (Live(w) /\ workers'[w].pc = "done")
            => active_search' = IF active_search.token = w
                                THEN None
                                ELSE active_search]_vars
    /\ [](active_search # None => Live(active_search.token))

\* Worker 1, cancelled, has exited and the newer search of worker 2 is in
\* place.
C16_Witness ==
    /\ Len(workers) = 2
    /\ workers[1].pc = "done"
    /\ tokens[1]
    /\ active_search.token = 2
    /\ InLoop(2)

\* C17: no two successive events of one engine worker carry the same
\* sequence of paths, and every event after a worker's first is published
\* with a snapshot whose paths differ from last_sent_paths.
C17_NoRepeatedPaths ==
    /\ [](\A w \in DOMAIN workers :
            \A i \in 1..(Len(workers[w].events) - 1) :
                workers[w].events[i] # workers[w].events[i + 1])
    /\ [][\A w \in DOMAIN workers :
            (workers[w].events # <<>>
                /\ Len(workers'[w].events) > Len(workers[w].events))
            => (/\ Last(workers'[w].events) # workers[w].last_sent_paths
                /\ workers[w].last_sent_paths = Last(workers[w].events))]_vars

\* A worker has published the empty snapshot and then, the snapshot having
\* changed, the match; the engine has stopped.
C17_Witness ==
    \E w \in DOMAIN workers :
        /\ workers[w].pc = "post"
        /\ workers[w].events = << <<>>, << <<"b", "a">> >> >>
        /\ workers[w].last_sent_paths = << <<"b", "a">> >>
        /\ ~workers[w].running

\* C18: a worker that found its token set at the top of an iteration, and
\* so has called manager.cancel(), leaves the loop at the end of that
\* iteration, whether or not it has published an event.
C18_CancelledWorkerLeavesAtOnce ==
    [][\A w \in DOMAIN workers :
         (/\ workers[w].pc = "post"
          /\ workers[w].manager.cancelled
          /\ workers'[w] # workers[w])
         => workers'[w].pc = "drop"]_vars

\* The idle state after some call has changed latest_query: nothing is
\* scheduled or active, no thread is left, and the engine worker started
\* last searched for latest_query.
IdleAfterLatest ==
    /\ Idle
    /\ active_search = None
    /\ workers # <<>>
    /\ Last(workers).query = latest_query

\* C19: with every thread scheduled fairly and every engine coming to rest,
\* once the calls have stopped after one that changed latest_query, the
\* orchestrator reaches the idle state and stays in it, and the engine
\* worker started last has searched for the final latest_query.
C19_EventuallyIdle == <>[](asked # {} => IdleAfterLatest)

\* "a" then, during its search, "ab": both searches have run and the
\* orchestrator is idle after the search for "ab".
C19_Witness ==
    /\ calls = 2
    /\ IdleAfterLatest
    /\ Len(workers) = 2
    /\ workers[1].query = <<"a">>
    /\ latest_query = <<"a", "b">>

\* C20: whenever active_search is present, its query is a prefix of
\* latest_query.
C20_ActiveQueryIsPrefixOfLatest ==
    active_search # None => StartsWith(latest_query, active_search.query)

\* The active search, about to end, is for "a" and the user has typed on
\* to "ab".
C20_Witness ==
    /\ active_search # None
    /\ active_search.query = <<"a">>
    /\ latest_query = <<"a", "b">>
    /\ workers[active_search.token].pc = "drop"

====
